---- MODULE Spec2Model ----
(***************************************************************************)
(* Model of src/fairness.py: the streaming fairness metrics SPD and EOD    *)
(* (torchmetrics accumulators with four integer counters) and the          *)
(* stateless FairnessLoss.forward.                                         *)
(*                                                                         *)
(* Tensors are modelled as sequences (1-D).  Counter arithmetic is exact   *)
(* (int64 counters never overflow within the bounds).  compute() divides   *)
(* integers into floats; it is modelled as the exact rational in lowest    *)
(* terms, which preserves order and equality of the float32 results for    *)
(* the small counters explored here.                                       *)
(***************************************************************************)
EXTENDS Integers, Sequences, FiniteSets, TLC

\* ---------------------------------------------------------------- bounds
MaxLen == 2
MaxCalls == 2
MaxBatches == 3
MaxSamples == 3
MaxSparse == 2
MaxN == 2
MaxD == 2

\* ---------------------------------------------------------------- inputs
PredVals == {0, 1}
\* label encodings: 0/1 as the data contract states it, and -1/+1
BinaryLabels == {0, 1}
SignedLabels == {-1, 1}

SeqsUpTo(S, n) == UNION {[1..k -> S] : k \in 0..n}

Preds == SeqsUpTo(PredVals, MaxLen)
Masks == SeqsUpTo(BOOLEAN, MaxLen)

\* ---------------------------------------------------------------- tensor helpers
\* x[mask] : boolean-mask indexing of a 1-D tensor (shapes must match)
MaskShapeOK(x, mask) == Len(x) = Len(mask)

MaskSelect(x, mask) ==
  LET F[i \in 0..Len(x)] ==
        IF i = 0 THEN <<>>
        ELSE IF mask[i] THEN Append(F[i-1], x[i]) ELSE F[i-1]
  IN F[Len(x)]

\* ~mask
Invert(mask) == [i \in 1..Len(mask) |-> ~mask[i]]

\* targets.bool() : every nonzero entry is True
ToBool(t) == [i \in 1..Len(t) |-> t[i] # 0]

\* torch broadcasting of two 1-D shapes
BroadcastOK(a, b) == Len(a) = Len(b) \/ Len(a) = 1 \/ Len(b) = 1

\* torch.logical_and(a, b) with broadcasting
LogicalAnd(a, b) ==
  LET n == IF Len(a) = 1 THEN Len(b) ELSE Len(a)
      at(s, i) == IF Len(s) = 1 THEN s[1] ELSE s[i]
  IN [i \in 1..n |-> at(a, i) /\ at(b, i)]

\* len(x[x == 1])
CountEq1(x) == Cardinality({i \in 1..Len(x) : x[i] = 1})

\* m.sum() of a boolean tensor
SumBool(m) == Cardinality({i \in 1..Len(m) : m[i]})

\* ---------------------------------------------------------------- accumulator
Zero == [preds_adv_pos |-> 0, preds_dis_pos |-> 0, num_adv |-> 0, num_dis |-> 0]

Ok(s) == [raised |-> "none", state |-> s]
Raise(e, s) == [raised |-> e, state |-> s]

\* SPD.update with the positives counted over the whole batch, not per subgroup
SPDUpdatePosUnmasked(s, preds, adv_mask) ==
  IF ~MaskShapeOK(preds, adv_mask) THEN Raise("IndexError", s)
  ELSE
    LET preds_adv == MaskSelect(preds, adv_mask)
        preds_dis == MaskSelect(preds, Invert(adv_mask))
    IN Ok([preds_adv_pos |-> s.preds_adv_pos + CountEq1(preds),
           preds_dis_pos |-> s.preds_dis_pos + CountEq1(preds),
           num_adv |-> s.num_adv + Len(preds_adv),
           num_dis |-> s.num_dis + Len(preds_dis)])

\* SPD.update with the subgroup totals assigned (=) instead of accumulated (+=)
SPDUpdateAssignTotals(s, preds, adv_mask) ==
  IF ~MaskShapeOK(preds, adv_mask) THEN Raise("IndexError", s)
  ELSE
    LET preds_adv == MaskSelect(preds, adv_mask)
        preds_dis == MaskSelect(preds, Invert(adv_mask))
    IN Ok([preds_adv_pos |-> s.preds_adv_pos + CountEq1(preds_adv),
           preds_dis_pos |-> s.preds_dis_pos + CountEq1(preds_dis),
           num_adv |-> Len(preds_adv),
           num_dis |-> Len(preds_dis)])

\* SPD.update(preds, adv_mask)
SPDUpdate(s, preds, adv_mask) ==
  IF ~MaskShapeOK(preds, adv_mask) THEN Raise("IndexError", s)
  ELSE
    LET preds_adv == MaskSelect(preds, adv_mask)
        preds_dis == MaskSelect(preds, Invert(adv_mask))
    IN Ok([preds_adv_pos |-> s.preds_adv_pos + CountEq1(preds_adv),
           preds_dis_pos |-> s.preds_dis_pos + CountEq1(preds_dis),
           num_adv |-> s.num_adv + Len(preds_adv),
           num_dis |-> s.num_dis + Len(preds_dis)])

\* EOD.update with the positive counts assigned (=) instead of accumulated (+=)
EODUpdateAssignPos(s, preds, targets, adv_mask) ==
  IF ~BroadcastOK(adv_mask, ToBool(targets)) THEN Raise("RuntimeError", s)
  ELSE
    LET sel_adv == LogicalAnd(adv_mask, ToBool(targets))
        sel_dis == LogicalAnd(Invert(adv_mask), ToBool(targets))
    IN IF ~MaskShapeOK(preds, sel_adv) THEN Raise("IndexError", s)
       ELSE
         LET preds_adv == MaskSelect(preds, sel_adv)
             preds_dis == MaskSelect(preds, sel_dis)
         IN Ok([preds_adv_pos |-> CountEq1(preds_adv),
                preds_dis_pos |-> CountEq1(preds_dis),
                num_adv |-> s.num_adv + SumBool(sel_adv),
                num_dis |-> s.num_dis + SumBool(sel_dis)])

\* EOD.update with the subgroup totals counted before preds is indexed
EODUpdateTotalsFirst(s, preds, targets, adv_mask) ==
  IF ~BroadcastOK(adv_mask, ToBool(targets)) THEN Raise("RuntimeError", s)
  ELSE
    LET sel_adv == LogicalAnd(adv_mask, ToBool(targets))
        sel_dis == LogicalAnd(Invert(adv_mask), ToBool(targets))
        counted == [s EXCEPT !.num_adv = @ + SumBool(sel_adv),
                             !.num_dis = @ + SumBool(sel_dis)]
    IN IF ~MaskShapeOK(preds, sel_adv) THEN Raise("IndexError", counted)
       ELSE
         LET preds_adv == MaskSelect(preds, sel_adv)
             preds_dis == MaskSelect(preds, sel_dis)
         IN Ok([counted EXCEPT !.preds_adv_pos = @ + CountEq1(preds_adv),
                               !.preds_dis_pos = @ + CountEq1(preds_dis)])

\* EOD.update(preds, targets, adv_mask)
EODUpdate(s, preds, targets, adv_mask) ==
  IF ~BroadcastOK(adv_mask, ToBool(targets)) THEN Raise("RuntimeError", s)
  ELSE
    LET sel_adv == LogicalAnd(adv_mask, ToBool(targets))
        sel_dis == LogicalAnd(Invert(adv_mask), ToBool(targets))
    IN IF ~MaskShapeOK(preds, sel_adv) THEN Raise("IndexError", s)
       ELSE
         LET preds_adv == MaskSelect(preds, sel_adv)
             preds_dis == MaskSelect(preds, sel_dis)
         IN Ok([preds_adv_pos |-> s.preds_adv_pos + CountEq1(preds_adv),
                preds_dis_pos |-> s.preds_dis_pos + CountEq1(preds_dis),
                num_adv |-> s.num_adv + SumBool(sel_adv),
                num_dis |-> s.num_dis + SumBool(sel_dis)])

\* dist_reduce_fx="max" in place of "sum"
MergeMax(a, b) ==
  LET max(x, y) == IF x > y THEN x ELSE y
  IN [preds_adv_pos |-> max(a.preds_adv_pos, b.preds_adv_pos),
      preds_dis_pos |-> max(a.preds_dis_pos, b.preds_dis_pos),
      num_adv |-> max(a.num_adv, b.num_adv),
      num_dis |-> max(a.num_dis, b.num_dis)]

\* dist_reduce_fx="sum": states of two instances are combined counter-wise
Merge(a, b) ==
  [preds_adv_pos |-> a.preds_adv_pos + b.preds_adv_pos,
   preds_dis_pos |-> a.preds_dis_pos + b.preds_dis_pos,
   num_adv |-> a.num_adv + b.num_adv,
   num_dis |-> a.num_dis + b.num_dis]

\* ---------------------------------------------------------------- compute()
RECURSIVE GCD(_, _)
GCD(a, b) == IF b = 0 THEN a ELSE GCD(b, a % b)

Abs(x) == IF x < 0 THEN -x ELSE x

\* a float result as a fraction in lowest terms; den = 0 encodes nan / inf
NaN == [num |-> 0, den |-> 0]
Inf == [num |-> 1, den |-> 0]

Reduce(n, d) ==
  LET g == GCD(Abs(n), Abs(d))
      sgn == IF d < 0 THEN -1 ELSE 1
  IN [num |-> sgn * (n \div g), den |-> sgn * (d \div g)]

\* count / d  (true division of integer tensors)
Div(count, d) ==
  IF d # 0 THEN Reduce(count, d) ELSE IF count = 0 THEN NaN ELSE Inf

\* abs(p - q)
AbsDiff(p, q) ==
  IF p = NaN \/ q = NaN \/ (p = Inf /\ q = Inf) THEN NaN
  ELSE IF p = Inf \/ q = Inf THEN Inf
  ELSE Reduce(Abs(p.num * q.den - q.num * p.den), p.den * q.den)

\* the subgroup total used as the denominator without the max(., 1) guard
DenominatorUnguarded(total) == total

\* max(total, 1)
Denominator(total) == IF total > 1 THEN total ELSE 1

\* SPD.compute() / EOD.compute() (the two bodies are identical)
Compute(s) ==
  LET p_adv == Div(s.preds_adv_pos, Denominator(s.num_adv))
      p_dis == Div(s.preds_dis_pos, Denominator(s.num_dis))
  IN AbsDiff(p_adv, p_dis)

\* ---------------------------------------------------------------- call sequences
\* A batch is a record of aligned tensors: [preds, adv_mask] for SPD,
\* [preds, targets, adv_mask] for EOD.
SPDBatchesOfLen(n) == [preds : [1..n -> PredVals], adv_mask : [1..n -> BOOLEAN]]

EODBatchesOfLen(n, L) ==
  [preds : [1..n -> PredVals], targets : [1..n -> L], adv_mask : [1..n -> BOOLEAN]]

\* metric.update(*batch) for a metric of class k
Update(k, s, b) ==
  IF k = "SPD" THEN SPDUpdate(s, b.preds, b.adv_mask)
  ELSE EODUpdate(s, b.preds, b.targets, b.adv_mask)

\* the counters after feeding, in order, the batches at the indices order[1],
\* order[2], ... of a list, starting from s
FeedAll(k, s, batches, order) ==
  LET F[i \in 0..Len(order)] ==
        IF i = 0 THEN s ELSE Update(k, F[i-1], batches[order[i]]).state
  IN F[Len(order)]

SubSeqOrEmpty(x, a, b) == IF a > b THEN <<>> ELSE SubSeq(x, a, b)

\* the samples i..j of a batch (every tensor cut at the same indices)
Slice(k, b, i, j) ==
  IF k = "SPD"
  THEN [preds |-> SubSeqOrEmpty(b.preds, i, j),
        adv_mask |-> SubSeqOrEmpty(b.adv_mask, i, j)]
  ELSE [preds |-> SubSeqOrEmpty(b.preds, i, j),
        targets |-> SubSeqOrEmpty(b.targets, i, j),
        adv_mask |-> SubSeqOrEmpty(b.adv_mask, i, j)]

\* SPD.update on the samples of an EOD batch whose target equals 1
SPDUpdateOnPositives(s, b) ==
  LET pos == [i \in 1..Len(b.targets) |-> b.targets[i] = 1]
  IN SPDUpdate(s, MaskSelect(b.preds, pos), MaskSelect(b.adv_mask, pos))

\* ---------------------------------------------------------------- FairnessLoss
XVals == {0, 1}
ThetaVals == {-1, 0, 1}

\* feature matrices: N rows of D columns, 1 <= N <= MaxN, 1 <= D <= MaxD
Matrices ==
  UNION {[1..n -> [1..d -> XVals]] : n \in 1..MaxN, d \in 1..MaxD}

\* a theta argument: whether it is a torch.Tensor, its number of dimensions and
\* its entries (row-major); 1-D tensors carry every value combination
VectorThetas ==
  {[tensor |-> TRUE, ndim |-> 1, vals |-> v] : v \in SeqsUpTo(ThetaVals, MaxD + 1)}

NonVectorThetas ==
  UNION {{[tensor |-> TRUE, ndim |-> 2, vals |-> [i \in 1..l |-> 1]],
          [tensor |-> FALSE, ndim |-> 1, vals |-> [i \in 1..l |-> 1]]} : l \in 1..(MaxD + 1)}
  \cup {[tensor |-> TRUE, ndim |-> 0, vals |-> <<1>>]}

Thetas == VectorThetas \cup NonVectorThetas

\* exact rationals for the float arithmetic of forward()
RAdd(p, q) == Reduce(p.num * q.den + q.num * p.den, p.den * q.den)
RSub(p, q) == Reduce(p.num * q.den - q.num * p.den, p.den * q.den)
RMul(p, q) == Reduce(p.num * q.num, p.den * q.den)
RInt(n) == [num |-> n, den |-> 1]

\* sum of a sequence of rationals
RSum(xs) ==
  LET F[i \in 0..Len(xs)] == IF i = 0 THEN RInt(0) ELSE RAdd(F[i-1], xs[i])
  IN F[Len(xs)]

\* x.mean() of a non-empty 1-D tensor of rationals
RMean(xs) == RMul(RSum(xs), [num |-> 1, den |-> Len(xs)])

NumCols(X) == Len(X[1])

\* X[:, idx] is defined for -D <= idx < D
ColumnOK(X, idx) == -NumCols(X) <= idx /\ idx < NumCols(X)

Column(X, idx) ==
  LET j == IF idx < 0 THEN NumCols(X) + idx + 1 ELSE idx + 1
  IN [i \in 1..Len(X) |-> RInt(X[i][j])]

\* theta[1:] : the first entry dropped instead of the last
ThetaWeightsDropFirst(vals) == SubSeqOrEmpty(vals, 2, Len(vals))

\* theta[:-1]
ThetaWeights(vals) == SubSeqOrEmpty(vals, 1, Len(vals) - 1)

\* X @ w for a 1-D w (needs D = len(w))
MatVecOK(X, w) == NumCols(X) = Len(w)

MatVec(X, w) ==
  [i \in 1..Len(X) |->
     LET F[j \in 0..Len(w)] == IF j = 0 THEN 0 ELSE F[j-1] + X[i][j] * w[j]
     IN RInt(F[Len(w)])]

Returned(v) == [status |-> "returned", value |-> v]
Failed(e) == [status |-> e, value |-> RInt(0)]
Pending == [status |-> "pending", value |-> RInt(0)]

\* forward() with the sensitive column read before theta is checked
ForwardColumnFirst(idx, X, theta) ==
  IF ~ColumnOK(X, idx) THEN Failed("IndexError")
  ELSE IF ~(theta.tensor /\ theta.ndim = 1) THEN Failed("AssertionError")
  ELSE
    LET z == Column(X, idx)
        zbar == RMean(z)
        w == ThetaWeights(theta.vals)
    IN IF ~MatVecOK(X, w) THEN Failed("RuntimeError")
       ELSE
         LET score == MatVec(X, w)
         IN Returned(RMean([i \in 1..Len(X) |-> RMul(RSub(z[i], zbar), score[i])]))

\* FairnessLoss.forward(X, theta)
Forward(idx, X, theta) ==
  IF ~(theta.tensor /\ theta.ndim = 1) THEN Failed("AssertionError")
  ELSE IF ~ColumnOK(X, idx) THEN Failed("IndexError")
  ELSE
    LET z == Column(X, idx)
        zbar == RMean(z)
        w == ThetaWeights(theta.vals)
    IN IF ~MatVecOK(X, w) THEN Failed("RuntimeError")
       ELSE
         LET score == MatVec(X, w)
         IN Returned(RMean([i \in 1..Len(X) |-> RMul(RSub(z[i], zbar), score[i])]))

\* ---------------------------------------------------------------- state
\* kind     : class of the metric instance ("SPD" or "EOD")
\* acc      : its four counters
\* raised   : exception of the most recent update call ("none" if it returned)
\* aligned  : whether the arguments of that call all had the same length
\* ncalls   : number of update calls made
\* hist     : the batches fed so far (HistSpec only)
\* prev     : the counters before the most recent call (HistSpec only)
\* labels   : the values ground-truth labels take in the caller's data
\* sensitive_attribute_idx, X, theta, out : the configuration, the arguments
\*            and the outcome of one FairnessLoss.forward call (LossSpec only)
VARIABLES kind, acc, raised, aligned, ncalls, hist, prev, labels,
          sensitive_attribute_idx, X, theta, out

metricVars == <<kind, acc, raised, aligned, ncalls, hist, prev, labels>>
lossVars == <<sensitive_attribute_idx, X, theta, out>>
vars == <<metricVars, lossVars>>

NoLoss ==
  /\ sensitive_attribute_idx = 0
  /\ X = <<<<0>>>>
  /\ theta = [tensor |-> TRUE, ndim |-> 1, vals |-> <<0, 0>>]
  /\ out = Pending

Init ==
  /\ kind \in {"SPD", "EOD"}
  /\ acc = Zero
  /\ raised = "none"
  /\ aligned = TRUE
  /\ ncalls = 0
  /\ hist = <<>>
  /\ prev = Zero
  /\ labels = BinaryLabels
  /\ NoLoss

\* update calls with tensors of any lengths
SPD_update ==
  /\ kind = "SPD"
  /\ ncalls < MaxCalls
  /\ \E preds \in Preds, adv_mask \in Masks :
       LET r == SPDUpdate(acc, preds, adv_mask)
       IN /\ acc' = r.state
          /\ raised' = r.raised
          /\ aligned' = (Len(preds) = Len(adv_mask))
  /\ ncalls' = ncalls + 1
  /\ UNCHANGED <<kind, hist, prev, labels, lossVars>>

EOD_update ==
  /\ kind = "EOD"
  /\ ncalls < MaxCalls
  /\ \E preds \in Preds, targets \in SeqsUpTo(labels, MaxLen), adv_mask \in Masks :
       LET r == EODUpdate(acc, preds, targets, adv_mask)
       IN /\ acc' = r.state
          /\ raised' = r.raised
          /\ aligned' = (Len(preds) = Len(adv_mask) /\ Len(preds) = Len(targets))
  /\ ncalls' = ncalls + 1
  /\ UNCHANGED <<kind, hist, prev, labels, lossVars>>

Next == SPD_update \/ EOD_update

Spec == Init /\ [][Next]_vars

\* update calls with aligned batches, recorded in hist
NumSamples(batches) ==
  LET F[i \in 0..Len(batches)] ==
        IF i = 0 THEN 0 ELSE F[i-1] + Len(batches[i].preds)
  IN F[Len(batches)]

\* Histories explored: up to MaxCalls batches holding up to MaxSamples samples,
\* or up to MaxBatches batches holding up to MaxSparse samples.
Fits(nbatches, nsamples) ==
  \/ nbatches <= MaxCalls /\ nsamples <= MaxSamples
  \/ nbatches <= MaxBatches /\ nsamples <= MaxSparse

\* the batch lengths that may be fed next
Room == {n \in 0..MaxLen : Fits(Len(hist) + 1, NumSamples(hist) + n)}

FeedBatch(b) ==
  /\ LET r == Update(kind, acc, b)
     IN /\ acc' = r.state
        /\ raised' = r.raised
  /\ prev' = acc
  /\ hist' = Append(hist, b)
  /\ ncalls' = ncalls + 1
  /\ UNCHANGED <<kind, aligned, labels, lossVars>>

SPD_feed ==
  /\ kind = "SPD"
  /\ \E n \in Room : \E b \in SPDBatchesOfLen(n) : FeedBatch(b)

EOD_feed ==
  /\ kind = "EOD"
  /\ \E n \in Room : \E b \in EODBatchesOfLen(n, labels) : FeedBatch(b)

HistNext == SPD_feed \/ EOD_feed

HistSpec == Init /\ [][HistNext]_vars

\* the same calls on data in either label encoding
LabelInit ==
  /\ kind \in {"SPD", "EOD"}
  /\ acc = Zero
  /\ raised = "none"
  /\ aligned = TRUE
  /\ ncalls = 0
  /\ hist = <<>>
  /\ prev = Zero
  /\ labels \in {BinaryLabels, SignedLabels}
  /\ NoLoss

LabelSpec == LabelInit /\ [][HistNext]_vars

\* one forward call on arguments drawn at the start
LossInit ==
  /\ kind = "SPD"
  /\ acc = Zero
  /\ raised = "none"
  /\ aligned = TRUE
  /\ ncalls = 0
  /\ hist = <<>>
  /\ prev = Zero
  /\ labels = BinaryLabels
  /\ sensitive_attribute_idx \in -1..(MaxD - 1)
  /\ X \in Matrices
  /\ theta \in Thetas
  /\ out = Pending

FairnessLoss_forward ==
  /\ out.status = "pending"
  /\ out' = Forward(sensitive_attribute_idx, X, theta)
  /\ UNCHANGED <<sensitive_attribute_idx, X, theta, metricVars>>

LossNext == FairnessLoss_forward

LossSpec == LossInit /\ [][LossNext]_vars

\* ---------------------------------------------------------------- claims
InUnit(f) == f.den > 0 /\ 0 <= f.num /\ f.num <= f.den

\* C1: in every reachable state 0 <= preds_adv_pos <= num_adv and
\* 0 <= preds_dis_pos <= num_dis, and compute() returns a value in [0,1].
C1_ComputeInUnitInterval ==
  /\ 0 <= acc.preds_adv_pos /\ acc.preds_adv_pos <= acc.num_adv
  /\ 0 <= acc.preds_dis_pos /\ acc.preds_dis_pos <= acc.num_dis
  /\ InUnit(Compute(acc))

\* C1 witness: after two accepted, aligned calls compute() is strictly inside (0,1)
C1_Witness ==
  /\ ncalls = 2 /\ raised = "none" /\ aligned
  /\ Compute(acc) = [num |-> 1, den |-> 2]

\* C2: one update on a batch leaves the same four counters (hence the same
\* compute()) as update on a prefix followed by update on the rest, for every
\* cut and from every prior state.
C2_StreamingAdditivity ==
  hist # <<>> =>
    LET b == hist[Len(hist)]
        n == Len(b.preds)
    IN \A k \in 0..n :
         LET first == Update(kind, prev, Slice(kind, b, 1, k))
             second == Update(kind, first.state, Slice(kind, b, k+1, n))
         IN /\ first.raised = "none" /\ second.raised = "none"
            /\ second.state = acc
            /\ Compute(second.state) = Compute(acc)

\* C2 witness: a batch of two samples (the cut k = 1 is a proper split) fed to
\* an accumulator that already holds counts
C2_Witness ==
  /\ Len(hist) = 2 /\ Len(hist[2].preds) = 2 /\ prev # Zero
  /\ acc.preds_adv_pos > prev.preds_adv_pos /\ acc.num_dis > prev.num_dis

\* C6 (as claimed): for every equal-length batch, EOD.update changes the
\* counters exactly as SPD.update on the samples whose target equals 1.
C6_EODIsSPDOnPositives ==
  (kind = "EOD" /\ hist # <<>>) =>
     acc = SPDUpdateOnPositives(prev, hist[Len(hist)]).state

\* C7 (as claimed): an update call whose arguments differ in length is rejected.
C7_MismatchRejected == ~aligned => raised # "none"

\* C10: a failing update call leaves all four counters as they were.
C10_FailedUpdateKeepsCounters == [][raised' # "none" => acc' = acc]_vars

\* C10 witness: a call has failed on an accumulator that already holds counts
C10_Witness == raised # "none" /\ acc.num_adv > 0 /\ acc.preds_dis_pos > 0

\* the indices in S, ascending, as a sequence
Ascending(S, n) ==
  LET F[i \in 0..n] ==
        IF i = 0 THEN <<>> ELSE IF i \in S THEN Append(F[i-1], i) ELSE F[i-1]
  IN F[n]

\* the longest history explored
MaxHist == IF MaxBatches > MaxCalls THEN MaxBatches ELSE MaxCalls

\* the orders in which n batches can be fed
Orders == [n \in 0..MaxHist |-> Permutations(1..n)]

\* the ways to deal n batches to two shards (each shard keeps the feeding order)
Deals ==
  [n \in 0..MaxHist |->
     {<<Ascending(S, n), Ascending((1..n) \ S, n)>> : S \in SUBSET (1..n)}]

\* C3: feeding the batches of the list in any permutation of their order
\* yields the same four counters and the same compute().
C3_BatchOrderIndependent ==
  \A p \in Orders[Len(hist)] :
    LET s == FeedAll(kind, Zero, hist, p)
    IN s = acc /\ Compute(s) = Compute(acc)

\* C3 witness: three batches fed, the first two non-empty and different, with
\* counts in both subgroups (so the six orders are six different call sequences)
C3_Witness ==
  /\ Len(hist) = 3 /\ hist[1] # hist[2]
  /\ Len(hist[1].preds) = 1 /\ Len(hist[2].preds) = 1
  /\ acc.preds_adv_pos = 1 /\ acc.num_dis = 1

\* C4: two instances fed disjoint sub-lists of the batches, combined by
\* counter-wise addition, give the same counters and compute() whichever is
\* added to the other, equal to those of one instance fed all the batches.
C4_MergeBySummation ==
  \A d \in Deals[Len(hist)] :
    LET a == FeedAll(kind, Zero, hist, d[1])
        b == FeedAll(kind, Zero, hist, d[2])
        ab == Merge(a, b)
        ba == Merge(b, a)
    IN /\ ab = ba
       /\ ab = acc
       /\ Compute(ab) = Compute(acc)
       /\ Compute(ba) = Compute(acc)

\* C4 witness: the two shards {first batch} and {second batch} both hold
\* counts, and their sum is the single instance's state
C4_Witness ==
  /\ Len(hist) = 2
  /\ LET a == FeedAll(kind, Zero, hist, <<1>>)
         b == FeedAll(kind, Zero, hist, <<2>>)
     IN /\ a.preds_adv_pos = 1 /\ b.num_dis = 1 /\ b.preds_dis_pos = 0
        /\ Merge(a, b) = acc

AllMasksFalse ==
  \A i \in 1..Len(hist) : \A j \in 1..Len(hist[i].adv_mask) : ~hist[i].adv_mask[j]

\* the positive rate count / total of a non-empty subgroup, 0 for an empty one
Rate(count, total) == IF total = 0 THEN RInt(0) ELSE Reduce(count, total)

\* C5: when a subgroup total is 0, compute() does not fail and returns the other
\* subgroup's positive rate (0 when both totals are 0); if every adv_mask seen
\* was all-false, SPD.compute() is preds_dis_pos / num_dis.
C5_EmptySubgroupPolicy ==
  /\ Compute(acc).den # 0
  /\ acc.num_adv = 0 => Compute(acc) = Rate(acc.preds_dis_pos, acc.num_dis)
  /\ acc.num_dis = 0 => Compute(acc) = Rate(acc.preds_adv_pos, acc.num_adv)
  /\ (acc.num_adv = 0 /\ acc.num_dis = 0) => Compute(acc) = RInt(0)
  /\ (kind = "SPD" /\ AllMasksFalse) =>
        /\ acc.num_adv = 0
        /\ Compute(acc) = Rate(acc.preds_dis_pos, acc.num_dis)

\* C5 witness: SPD fed only all-false masks, two disadvantaged samples of
\* which one is predicted positive: compute() = 1/2
C5_Witness ==
  /\ kind = "SPD" /\ AllMasksFalse /\ Len(hist) = 2
  /\ acc.num_adv = 0 /\ acc.num_dis = 2 /\ acc.preds_dis_pos = 1
  /\ Compute(acc) = [num |-> 1, den |-> 2]

\* ------------------------------------------------------------ FairnessLoss claims
Called == out.status # "pending"

IsVector(t) == t.tensor /\ t.ndim = 1

\* (N * sum(z_i * s_i) - sum(z) * sum(s)) / N^2 with s_i the dot product of
\* row i with the first D entries of theta
Covariance ==
  LET N == Len(X)
      D == NumCols(X)
      j == IF sensitive_attribute_idx < 0 THEN D + sensitive_attribute_idx + 1
           ELSE sensitive_attribute_idx + 1
      dot[i \in 1..N, c \in 0..D] ==
        IF c = 0 THEN 0 ELSE dot[i, c-1] + X[i][c] * theta.vals[c]
      sumZS[i \in 0..N] == IF i = 0 THEN 0 ELSE sumZS[i-1] + X[i][j] * dot[i, D]
      sumZ[i \in 0..N] == IF i = 0 THEN 0 ELSE sumZ[i-1] + X[i][j]
      sumS[i \in 0..N] == IF i = 0 THEN 0 ELSE sumS[i-1] + dot[i, D]
  IN Reduce(N * sumZS[N] - sumZ[N] * sumS[N], N * N)

\* C8 (as claimed): with X of shape N x D and a 1-D theta of length D the
\* call succeeds.
C8_ForwardAcceptsThetaOfLengthD ==
  (Called /\ IsVector(theta) /\ Len(theta.vals) = NumCols(X)
     /\ ColumnOK(X, sensitive_attribute_idx))
  => out.status = "returned"

\* C8 (amended): with X of shape N x D and a 1-D theta of length D + 1 the call
\* succeeds and returns the covariance of the sensitive column with the scores
\* X @ theta[:-1]; the last entry of theta does not enter the result.
C8_ForwardIsCovariance ==
  (Called /\ IsVector(theta) /\ Len(theta.vals) = NumCols(X) + 1
     /\ ColumnOK(X, sensitive_attribute_idx))
  => out = Returned(Covariance)

\* C8 witness: a 2 x 2 matrix, a theta of length 3 with a nonzero last entry,
\* and a nonzero loss returned
C8_Witness ==
  /\ out.status = "returned" /\ out.value.num # 0
  /\ Len(X) = 2 /\ NumCols(X) = 2
  /\ theta.vals[3] # 0 /\ theta.vals[1] # theta.vals[2]

\* C9: forward fails with the assertion, returning no value, whenever theta is
\* not a 1-D tensor, whatever X is (also when X has no column at the index).
C9_NonVectorThetaRejected ==
  (Called /\ ~IsVector(theta)) => out = Failed("AssertionError")

\* C9 witness: a 2-D theta and an X without the sensitive column: the
\* assertion fires, not the column read
C9_Witness ==
  /\ out.status = "AssertionError" /\ theta.tensor /\ theta.ndim = 2
  /\ ~ColumnOK(X, sensitive_attribute_idx)
====
